---- MODULE Spec2Model ----
(***************************************************************************)
(* Fantasy2025: round-robin cup fixtures (gen_cup_schedule.py) and cup     *)
(* standings (app.py).                                                     *)
(*                                                                         *)
(* Four specifications share the variables below:                         *)
(*   Spec          main() of gen_cup_schedule.py for one tournament:       *)
(*                 generate, validate, then save or skip                   *)
(*   SpecValidate  validate_round_robin_schedule on an arbitrary schedule  *)
(*   SpecMatch     calculate_match_result on arbitrary scores              *)
(*   SpecStandings calculate_cup_standings, one fixture per step, with the *)
(*                 deadline oracle running beside it                       *)
(***************************************************************************)
EXTENDS Integers, Sequences, FiniteSets, TLC

\* ------------------------------------------------------------ bounds
\* Team names that lists of arbitrary content are drawn from.
NumNames == 4
\* Longest team list of arbitrary content (duplicates and "BYE" allowed).
MaxTeams == 4
\* Longest list of distinct names T01, T02, ... handed to the generator.
MaxRoster == 20
\* SpecValidate: longest team list and most fixtures of a hand-made schedule.
MaxValTeams == 3
MaxMatches == 3
\* SpecMatch: scores range over -MaxScore..MaxScore.
MaxScore == 7
\* SpecStandings: at most this many cells of weeks.csv hold a value; every
\* other cell is absent and reads as 0 points, 0 hits.
MaxCells == 2

AllNames ==
  <<"T01", "T02", "T03", "T04", "T05", "T06", "T07", "T08", "T09", "T10", "T11",
    "T12", "T13", "T14", "T15", "T16", "T17", "T18", "T19", "T20", "T21", "T22">>

\* gen_cup_schedule.py:14, :46, :61, :78: the bye placeholder's name.
BYE == "BYE"

Names == {AllNames[i] : i \in 1..NumNames} \cup {BYE}

SeqsUpTo(S, n) == UNION {[1..k -> S] : k \in 0..n}

\* The lists generate_round_robin_schedule may be handed: every list over
\* Names up to MaxTeams long, and the list of the first n names for every n
\* up to MaxRoster.
TeamLists ==
  SeqsUpTo(Names, MaxTeams) \cup {SubSeq(AllNames, 1, n) : n \in 0..MaxRoster}

VARIABLES
  pc,        \* position of main() / of the request being served
  roster,    \* the team list as it was handed to the generator
  teams,     \* shuffled_teams: the same list object, as the generator leaves it
  schedule,  \* list of rounds, each a list of <<team1, team2>>
  raised,    \* the exception generate_round_robin_schedule raised, or "none"
  valid,     \* validate_round_robin_schedule's result: "none" before the call
  csv,       \* rows <<week, team1, team2>> of tournament_<n>.csv
  team1_points,  \* SpecMatch: the arguments of calculate_match_result
  team2_points,
  match_result,  \* SpecMatch: the pair <<result, diff>> it returned
  weeks_csv,        \* weeks.csv: <<team, week>> -> [points, hits], filled cells only
  tournament_data,  \* the fixtures read from tournament_<n>.csv
  team_points,      \* the score table handed in: <<team, week>> -> points
  current_week,     \* the request's current week
  deadline_passed,  \* what get_current_week_info()[1] answers now
  standings,        \* team -> row, the accumulator of lines 479-489
  idx,              \* fixtures of tournament_data processed so far
  final_standings,  \* the list calculate_cup_standings returns
  teams_with_same_points,  \* SpecTiebreak: the group handed to apply_tiebreaker_rules
  sorted_group,            \* SpecTiebreak: the list it returned
  historical_teams,  \* the team column of weeks.csv, in row order
  live_df,           \* what extract_league_data does: [raises, rows]
  historical_data,   \* the table get_live_and_historical_data returned
  first_request,     \* SpecSeason: an earlier cup request and what it returned
  second_request,    \* SpecSeason: the latest cup request and what it returned
  tournament_files,  \* SpecFiles: cup number -> rows of tournament_<n>.csv
  first_generated,   \* SpecFiles: cup number -> the rows first saved for it
  tournament_num,    \* SpecFiles: the loop variable of main(), 0 outside it
  requested_cup,     \* SpecFiles: the cup of the last request, 0 before it
  cup_deadline_passed,   \* get_cup_data: its local deadline_passed, line 58
  cup_schedule,          \* prepare_cup_schedule: the entries of schedule so far
  weeks_shown,           \* the weeks of weeks_to_show its loop has finished
  matches_with_results,  \* the list it is building for the week it is in
  cup_info               \* the cup_info of the response, lines 76-80

schedVars == <<roster, teams, schedule, raised, valid, csv>>
matchVars == <<team1_points, team2_points, match_result>>
inputVars == <<weeks_csv, tournament_data, team_points, current_week>>
standVars == <<inputVars, deadline_passed, standings, idx, final_standings>>
tieVars == <<teams_with_same_points, sorted_group>>
mergeVars == <<historical_teams, live_df, historical_data>>
seasonVars == <<first_request, second_request>>
filesVars == <<tournament_files, first_generated, tournament_num, requested_cup>>
cupVars == <<cup_deadline_passed, cup_schedule, weeks_shown, matches_with_results, cup_info>>
restVars == <<tieVars, mergeVars, seasonVars, filesVars, cupVars>>
vars == <<pc, schedVars, matchVars, standVars, restVars>>

\* ------------------------------------------------ gen_cup_schedule.py
Range(s) == {s[i] : i \in DOMAIN s}

RECURSIVE FlattenFrom(_, _)
FlattenFrom(ss, i) ==
  IF i > Len(ss) THEN <<>> ELSE ss[i] \o FlattenFrom(ss, i + 1)

Flatten(ss) == FlattenFrom(ss, 1)

\* lines 13-14: teams.append("BYE") when the list is odd-sized.
Pad(ts) == IF Len(ts) % 2 # 0 THEN Append(ts, BYE) ELSE ts

\* The rotation left out: every round pairs the same list.
RotateNot(rotating_teams, round_num) == rotating_teams

\* line 32: rotating_teams[round_num:] + rotating_teams[:round_num]
Rotate(rotating_teams, round_num) ==
  SubSeq(rotating_teams, round_num + 1, Len(rotating_teams))
    \o SubSeq(rotating_teams, 1, round_num)

\* lines 28-43: the i-th pairing (i from 0) of round round_num (from 0).
\* rotated_teams[-1] is its last element, rotated_teams[-(i+1)] the one at
\* 1-based position Len - i, rotated_teams[i-1] the one at 1-based position i.
Pairing(ts, round_num, i) ==
  LET rotated_teams == Rotate(Tail(ts), round_num)
  IN  IF i = 0
        THEN <<ts[1], rotated_teams[Len(rotated_teams)]>>
        ELSE <<rotated_teams[i], rotated_teams[Len(rotated_teams) - i]>>

\* lines 46-47: a pairing is kept unless one side is the bye.
Kept(m) == m[1] # BYE /\ m[2] # BYE

\* lines 25-49: one round.
RoundMatches(ts, round_num) ==
  SelectSeq([k \in 1..(Len(ts) \div 2) |-> Pairing(ts, round_num, k - 1)], Kept)

\* lines 11-51. ts is the list after the append of lines 13-14.
generate_round_robin_schedule(ts) ==
  [r \in 1..(Len(ts) - 1) |-> RoundMatches(ts, r - 1)]

\* line 61: the keys of team_opponents.
OpponentKeys(ts) == Range(ts) \ {BYE}

\* The expected number of opponents with the bye counted as a team.
ExpectedOpponentsWithBye(ts) == Len(ts) - 1

\* line 78: len([t for t in teams if t != "BYE"]) - 1
ExpectedOpponents(ts) == Len(SelectSeq(ts, LAMBDA t : t # BYE)) - 1

\* line 65: tuple(sorted([team1, team2])), kept as the set of the two names:
\* two sorted tuples are equal exactly when these sets are.
CanonicalPair(m) == {m[1], m[2]}

\* line 68: at the i-th match, pairings holds the pairs of the matches before.
DuplicateAt(ms, i) ==
  \E j \in 1..(i - 1) : CanonicalPair(ms[j]) = CanonicalPair(ms[i])

\* lines 74-75: a name without an entry in team_opponents raises KeyError.
KeyErrorAt(ms, i, keys) == ms[i][1] \notin keys \/ ms[i][2] \notin keys

\* lines 74-75, over the whole loop: the opponents recorded for team t.
OpponentsOf(ms, t) ==
  {ms[i][2] : i \in {k \in 1..Len(ms) : ms[k][1] = t}}
    \cup {ms[i][1] : i \in {k \in 1..Len(ms) : ms[k][2] = t}}

Min(S) == CHOOSE x \in S : \A y \in S : x <= y

\* lines 53-87: "True", "False", or "KeyError". The loop of lines 63-75 ends
\* at the first match that repeats a pair (return False, tested first) or
\* names a team without an entry (KeyError); if no match does, lines 78-87
\* compare every team's number of opponents with the expected number.
validate_round_robin_schedule(ts, sched) ==
  LET all_matches == Flatten(sched)
      keys == OpponentKeys(ts)
      stops == {i \in 1..Len(all_matches) :
                  DuplicateAt(all_matches, i) \/ KeyErrorAt(all_matches, i, keys)}
  IN  IF stops # {}
        THEN IF DuplicateAt(all_matches, Min(stops)) THEN "False" ELSE "KeyError"
      ELSE IF \E t \in keys :
                Cardinality(OpponentsOf(all_matches, t)) # ExpectedOpponents(ts)
        THEN "False"
      ELSE "True"

\* Weeks numbered from 0, as enumerate(schedule) would.
WeekOfRoundFromZero(r) == r - 1

\* line 97: enumerate(schedule, 1)
WeekOfRound(r) == r

\* lines 97-99: one row per fixture, in order.
save_tournament_to_csv(sched) ==
  Flatten([r \in 1..Len(sched) |->
             [j \in 1..Len(sched[r]) |->
                <<WeekOfRound(r), sched[r][j][1], sched[r][j][2]>>]])

\* ------------------------------------------------------------- app.py
Abs(x) == IF x < 0 THEN -x ELSE x

\* The margin rule with a margin of exactly 3 counted as a draw.
calculate_match_result_inclusive(t1p, t2p) ==
  LET diff == t1p - t2p
  IN  IF Abs(diff) <= 3 THEN <<"draw", diff>>
      ELSE IF diff >= 3 THEN <<"win", diff>>
      ELSE <<"loss", diff>>

\* lines 301-313.
calculate_match_result(t1p, t2p) ==
  LET diff == t1p - t2p
  IN  IF Abs(diff) < 3 THEN <<"draw", diff>>
      ELSE IF diff >= 3 THEN <<"win", diff>>
      ELSE <<"loss", diff>>

\* lines 275-276: int(parts[0]) if parts[0].isdigit() else 0. A value with
\* a sign is not all digits.
ParsePoints(cell) == IF cell.points >= 0 THEN cell.points ELSE 0

\* lines 226-247: the rows of tournament_<n>.csv as fixtures.
get_tournament_data(rows) ==
  [i \in 1..Len(rows) |->
     [week |-> rows[i][1], team1 |-> rows[i][2], team2 |-> rows[i][3]]]

\* team_points.get(team, {}).get(week, 0), lines 331-335, 499-500.
PointsOf(tp, team, week) ==
  IF <<team, week>> \in DOMAIN tp THEN tp[<<team, week>>] ELSE 0

\* lines 455-461: the hits of one cell of weeks.csv, 0 when it is absent.
HitsOf(table, team, week) ==
  IF <<team, week>> \in DOMAIN table THEN table[<<team, week>>].hits ELSE 0

\* lines 439-466: hits summed over weeks 1..current_week-1.
RECURSIVE SumHits(_, _, _)
SumHits(table, team, week) ==
  IF week < 1 THEN 0
  ELSE HitsOf(table, team, week) + SumHits(table, team, week - 1)

get_team_total_hits_from_csv(table, team_name, cw) ==
  SumHits(table, team_name, cw - 1)

\* lines 321-327: the positions of the fixtures between the two teams in a
\* week before the current one.
HeadToHeadMatches(team1, team2, td, cw) ==
  {i \in 1..Len(td) :
     /\ td[i].week < cw
     /\ \/ td[i].team1 = team1 /\ td[i].team2 = team2
        \/ td[i].team1 = team2 /\ td[i].team2 = team1}

\* The scores of the fixture in the order the fixture lists its teams, the
\* swap of line 336 left out.
HeadToHeadPointsInFixtureOrder(match, team1, team2, tp) ==
  <<PointsOf(tp, match.team1, match.week), PointsOf(tp, match.team2, match.week)>>

\* lines 330-336: the scores of the two teams in the week of the fixture, read
\* in fixture order and swapped back when the fixture lists team2 first.
HeadToHeadPoints(match, team1, team2, tp) ==
  IF match.team1 = team1
    THEN <<PointsOf(tp, team1, match.week), PointsOf(tp, team2, match.week)>>
    ELSE LET a == PointsOf(tp, team2, match.week)
             b == PointsOf(tp, team1, match.week)
         IN  <<b, a>>

\* lines 315-348. week 0 stands for None.
find_head_to_head_result(team1, team2, td, tp, cw) ==
  LET found == HeadToHeadMatches(team1, team2, td, cw)
  IN  IF found = {}
        THEN [result |-> "no_match", week |-> 0, team1_points |-> 0, team2_points |-> 0]
        ELSE
          LET match == td[Min(found)]
              week == match.week
              pts == HeadToHeadPoints(match, team1, team2, tp)
              res == calculate_match_result(pts[1], pts[2])[1]
          IN  [result |-> CASE res = "win" -> "team1_wins"
                            [] res = "loss" -> "team2_wins"
                            [] OTHER -> "draw",
               week |-> week, team1_points |-> pts[1], team2_points |-> pts[2]]

\* sort_key without its second component.
KeyGreaterByHitsOnly(table, cw, a, b) ==
  LET ha == get_team_total_hits_from_csv(table, a.team_name, cw)
      hb == get_team_total_hits_from_csv(table, b.team_name, cw)
  IN  -ha > -hb

\* lines 433-435: sort_key, compared as Python compares the tuples
\* (-total_hits, goal_difference).
KeyGreater(table, cw, a, b) ==
  LET ha == get_team_total_hits_from_csv(table, a.team_name, cw)
      hb == get_team_total_hits_from_csv(table, b.team_name, cw)
  IN  -ha > -hb \/ (-ha = -hb /\ a.goal_difference > b.goal_difference)

\* An unstable step: row x goes before the rows whose key equals its own.
RECURSIVE InsertBeforeEqualKeys(_, _, _, _)
InsertBeforeEqualKeys(table, cw, placed, x) ==
  IF placed = <<>> THEN <<x>>
  ELSE IF ~KeyGreater(table, cw, Head(placed), x) THEN <<x>> \o placed
  ELSE <<Head(placed)>> \o InsertBeforeEqualKeys(table, cw, Tail(placed), x)

\* One step of the sort: row x, the next of the input, goes behind every row
\* placed so far whose key is not smaller than its own.
RECURSIVE InsertByKey(_, _, _, _)
InsertByKey(table, cw, placed, x) ==
  IF placed = <<>> THEN <<x>>
  ELSE IF KeyGreater(table, cw, x, Head(placed)) THEN <<x>> \o placed
  ELSE <<Head(placed)>> \o InsertByKey(table, cw, Tail(placed), x)

\* line 437: sorted(..., key=sort_key, reverse=True). The sort is stable
\* also when reversed: rows with equal keys keep their input order.
RECURSIVE SortedFrom(_, _, _, _, _)
SortedFrom(table, cw, group, i, placed) ==
  IF i > Len(group) THEN placed
  ELSE SortedFrom(table, cw, group, i + 1, InsertByKey(table, cw, placed, group[i]))

SortedByKey(table, cw, group) == SortedFrom(table, cw, group, 1, <<>>)

\* Lines 415-430 alone: the scores of the drawn fixture are not compared.
RankDrawnByHitsOnly(team1, team2, h2h, team1_total_hits, team2_total_hits) ==
  IF team1_total_hits < team2_total_hits THEN <<team1, team2>>
  ELSE IF team2_total_hits < team1_total_hits THEN <<team2, team1>>
  ELSE IF team1.goal_difference >= team2.goal_difference
    THEN <<team1, team2>>
  ELSE <<team2, team1>>

\* lines 409-430: the head-to-head fixture was a draw.
RankDrawnHeadToHead(team1, team2, h2h, team1_total_hits, team2_total_hits) ==
  IF h2h.team1_points > h2h.team2_points THEN <<team1, team2>>
  ELSE IF h2h.team2_points > h2h.team1_points THEN <<team2, team1>>
  ELSE IF team1_total_hits < team2_total_hits THEN <<team1, team2>>
  ELSE IF team2_total_hits < team1_total_hits THEN <<team2, team1>>
  ELSE IF team1.goal_difference >= team2.goal_difference
    THEN <<team1, team2>>
  ELSE <<team2, team1>>

\* lines 386-437.
apply_tiebreaker_rules(group, td, tp, table, cw) ==
  IF Len(group) <= 1 THEN group
  ELSE
    LET team1 == group[1]
        team2 == group[2]
        h2h == find_head_to_head_result(team1.team_name, team2.team_name, td, tp, cw)
        team1_total_hits == get_team_total_hits_from_csv(table, team1.team_name, cw)
        team2_total_hits == get_team_total_hits_from_csv(table, team2.team_name, cw)
    IN  IF Len(group) = 2 /\ h2h.result = "team1_wins" THEN <<team1, team2>>
        ELSE IF Len(group) = 2 /\ h2h.result = "team2_wins" THEN <<team2, team1>>
        ELSE IF Len(group) = 2 /\ h2h.result = "draw" THEN
          RankDrawnHeadToHead(team1, team2, h2h, team1_total_hits, team2_total_hits)
        \* three or more teams, or two teams without a head-to-head fixture
        \* ("no_match" matches no branch of lines 405-430)
        ELSE SortedByKey(table, cw, group)

\* lines 474-477: the teams named by the fixtures.
TeamsOf(td) == {td[i].team1 : i \in 1..Len(td)} \cup {td[i].team2 : i \in 1..Len(td)}

\* lines 481-489.
NewRow(team) ==
  [team_name |-> team, played |-> 0, wins |-> 0, draws |-> 0, losses |-> 0,
   cup_points |-> 0, goal_difference |-> 0]

\* standings[team][field] += n
Bump(st, team, field, n) == [st EXCEPT ![team][field] = @ + n]

\* line 498 with the deadline tested only for fixtures of weeks up to the
\* current one, the current week itself included without asking the oracle.
ScoreableThroughCurrentWeek(week, cw, passed) == week <= cw

\* line 498: week < current_week or (week == current_week and
\* get_current_week_info()[1]); passed is the oracle's answer at that moment.
Scoreable(week, cw, passed) == week < cw \/ (week = cw /\ passed)

\* The result branches with a draw worth nothing to team2.
AwardDrawToTeam1Only(st, team1, team2, result) ==
  IF result = "win"
    THEN Bump(Bump(Bump(st, team1, "wins", 1), team1, "cup_points", 3),
              team2, "losses", 1)
  ELSE IF result = "draw"
    THEN Bump(Bump(Bump(st, team1, "draws", 1), team1, "cup_points", 1),
              team2, "draws", 1)
  ELSE Bump(Bump(Bump(st, team1, "losses", 1), team2, "wins", 1),
            team2, "cup_points", 3)

\* lines 512-524.
Award(st, team1, team2, result) ==
  IF result = "win"
    THEN Bump(Bump(Bump(st, team1, "wins", 1), team1, "cup_points", 3),
              team2, "losses", 1)
  ELSE IF result = "draw"
    THEN Bump(Bump(Bump(Bump(st, team1, "draws", 1), team1, "cup_points", 1),
                   team2, "draws", 1), team2, "cup_points", 1)
  ELSE Bump(Bump(Bump(st, team1, "losses", 1), team2, "wins", 1),
            team2, "cup_points", 3)

\* Line 510 with the difference added to team2 as well.
GoalDifferenceBothAdd(st, team1, team2, diff) ==
  Bump(Bump(Bump(Bump(st, team1, "played", 1), team1, "goal_difference", diff),
            team2, "played", 1), team2, "goal_difference", diff)

\* lines 504-510.
CountPlayed(st, team1, team2, diff) ==
  Bump(Bump(Bump(Bump(st, team1, "played", 1), team1, "goal_difference", diff),
            team2, "played", 1), team2, "goal_difference", -diff)

\* lines 499-524: one scoreable fixture.
ScoreMatch(st, match, tp) ==
  LET res == calculate_match_result(PointsOf(tp, match.team1, match.week),
                                    PointsOf(tp, match.team2, match.week))
  IN  Award(CountPlayed(st, match.team1, match.team2, res[2]),
            match.team1, match.team2, res[1])

Max(S) == CHOOSE x \in S : \A y \in S : x >= y

\* Groups taken from the lowest points up.
NextGroupPointsAscending(pts) == Min(pts)

\* line 539: sorted(points_groups.keys(), reverse=True), one key at a time.
NextGroupPoints(pts) == Max(pts)

\* lines 530-542: the groups of the points values pts, highest first, each
\* ordered by apply_tiebreaker_rules and appended.
RECURSIVE ResolveGroups(_, _, _, _, _, _)
ResolveGroups(all_teams, pts, td, tp, table, cw) ==
  IF pts = {} THEN <<>>
  ELSE LET points == NextGroupPoints(pts)
           teams_in_group == SelectSeq(all_teams, LAMBDA row : row.cup_points = points)
       IN  apply_tiebreaker_rules(teams_in_group, td, tp, table, cw)
             \o ResolveGroups(all_teams, pts \ {points}, td, tp, table, cw)

\* lines 527-544. all_teams is list(standings.values()).
RankStandings(all_teams, td, tp, table, cw) ==
  ResolveGroups(all_teams, {all_teams[i].cup_points : i \in 1..Len(all_teams)},
                td, tp, table, cw)

\* The orders in which list(standings.values()) may list the rows: the
\* dict is filled in the iteration order of the set of lines 474-477, which
\* depends on the hashes of the names.
IterationOrders(S) ==
  {f \in [1..Cardinality(S) -> S] :
     \A i, j \in 1..Cardinality(S) : i # j => f[i] # f[j]}

\* ------------------------------------------------------------ actions
IdleMatch ==
  /\ team1_points = 0
  /\ team2_points = 0
  /\ match_result = <<>>

IdleTie ==
  /\ teams_with_same_points = <<>>
  /\ sorted_group = <<>>

IdleMerge ==
  /\ historical_teams = <<>>
  /\ live_df = [raises |-> FALSE, rows |-> <<>>]
  /\ historical_data = <<>>

\* No request made yet.
NoRequest == [current_week |-> 0, deadline_passed |-> FALSE, standings |-> <<>>]

IdleSeason ==
  /\ first_request = NoRequest
  /\ second_request = NoRequest

IdleFiles ==
  /\ tournament_files = <<>>
  /\ first_generated = <<>>
  /\ tournament_num = 0
  /\ requested_cup = 0

\* No cup_info built yet.
NoCupInfo == [current_week |-> 0, deadline_passed |-> FALSE, weeks |-> {}]

IdleCup ==
  /\ cup_deadline_passed = FALSE
  /\ cup_schedule = <<>>
  /\ weeks_shown = 0
  /\ matches_with_results = <<>>
  /\ cup_info = NoCupInfo

IdleRest == IdleTie /\ IdleMerge /\ IdleSeason /\ IdleFiles /\ IdleCup

IdleStandings ==
  /\ weeks_csv = <<>>
  /\ tournament_data = <<>>
  /\ team_points = <<>>
  /\ current_week = 1
  /\ deadline_passed = FALSE
  /\ standings = <<>>
  /\ idx = 0
  /\ final_standings = <<>>

InitSched ==
  /\ roster \in TeamLists
  /\ teams = roster
  /\ schedule = <<>>
  /\ raised = "none"
  /\ valid = "none"
  /\ csv = <<>>

Init ==
  /\ pc = "start"
  /\ InitSched
  /\ IdleMatch
  /\ IdleStandings
  /\ IdleRest

\* main, line 116: the call of generate_round_robin_schedule(shuffled_teams).
\* No statement of the function raises: for an empty list the loop of line 24
\* runs over range(-1) and teams[0] is never read.
Generate ==
  /\ pc = "start"
  /\ teams' = Pad(teams)
  /\ schedule' = generate_round_robin_schedule(Pad(teams))
  /\ raised' = "none"
  /\ pc' = "generated"
  /\ UNCHANGED <<roster, valid, csv>>
  /\ UNCHANGED <<matchVars, standVars, restVars>>

\* main, line 120.
Validate ==
  /\ pc = "generated"
  /\ valid' = validate_round_robin_schedule(teams, schedule)
  /\ pc' = "validated"
  /\ UNCHANGED <<roster, teams, schedule, raised, csv>>
  /\ UNCHANGED <<matchVars, standVars, restVars>>

\* main, lines 120-122: validation failed, the tournament is skipped.
Skip ==
  /\ pc = "validated"
  /\ valid # "True"
  /\ pc' = "skipped"
  /\ UNCHANGED <<schedVars, matchVars, standVars, restVars>>

\* main, line 125.
Save ==
  /\ pc = "validated"
  /\ valid = "True"
  /\ csv' = save_tournament_to_csv(schedule)
  /\ pc' = "saved"
  /\ UNCHANGED <<roster, teams, schedule, raised, valid>>
  /\ UNCHANGED <<matchVars, standVars, restVars>>

Next == Generate \/ Validate \/ Skip \/ Save

Spec == Init /\ [][Next]_vars

\* ------------------------------------------------------- claims, Spec
HasDuplicates(ts) == \E i, j \in DOMAIN ts : i # j /\ ts[i] = ts[j]

\* A list of distinct real team names.
DistinctReal(ts) == ~HasDuplicates(ts) /\ BYE \notin Range(ts)

Positions(sched) ==
  UNION {{<<r, j>> : j \in 1..Len(sched[r])} : r \in 1..Len(sched)}

\* The number of fixtures of the whole schedule that pair a with b.
FixtureCount(sched, a, b) ==
  Cardinality({p \in Positions(sched) :
                 CanonicalPair(sched[p[1]][p[2]]) = {a, b}})

\* The fixtures of round r that team t takes part in.
FixturesOf(sched, r, t) ==
  {j \in 1..Len(sched[r]) : t \in CanonicalPair(sched[r][j])}

Generated == pc \in {"generated", "validated", "skipped", "saved"}

\* C1: for every list of N >= 2 distinct team names, none of them "BYE", the
\* schedule generate_round_robin_schedule returns holds every unordered pair
\* of distinct teams in exactly one fixture, and no fixture pairs a team with
\* itself or with the bye placeholder.
C1_EveryPairExactlyOnce ==
  (Generated /\ Len(roster) >= 2 /\ DistinctReal(roster)) =>
    /\ \A a, b \in Range(roster) :
         a # b => FixtureCount(schedule, a, b) = 1
    /\ \A p \in Positions(schedule) :
         LET m == schedule[p[1]][p[2]]
         IN  m[1] # m[2] /\ m[1] # BYE /\ m[2] # BYE

\* An odd list, so every round drops its bye pairing.
C1_Witness ==
  /\ pc = "generated"
  /\ Len(roster) = 5
  /\ DistinctReal(roster)
  /\ Len(schedule) = 5

\* C2: for every N in 2..20 and every list of N distinct team names, the
\* validator, given the list as the generator left it and the schedule the
\* generator returned, returns True.
C2_GeneratedScheduleValidates ==
  (pc \in {"validated", "skipped", "saved"}
     /\ Len(roster) \in 2..20 /\ ~HasDuplicates(roster)) =>
    valid = "True"

\* An odd list: the validator is handed the list with the bye appended.
C2_Witness ==
  /\ pc = "validated"
  /\ Len(roster) = 19
  /\ Len(teams) = 20
  /\ ~HasDuplicates(roster)
  /\ valid = "True"

\* C3: for N distinct teams the generator returns N-1 rounds (N even) or N
\* rounds (N odd); no team is in two fixtures of a round; every round has N/2
\* fixtures (N even) or (N-1)/2 (N odd), and for odd N every team is without
\* a fixture in exactly one round; every row save_tournament_to_csv writes
\* carries the position of its fixture's round as its week, so a round that
\* lost its bye pairing still uses up its week number.
C3_RoundsAndWeeks ==
  (Generated /\ Len(roster) >= 1 /\ DistinctReal(roster)) =>
    LET N == Len(roster)
        rounds == 1..Len(schedule)
    IN  /\ Len(schedule) = IF N % 2 = 0 THEN N - 1 ELSE N
        /\ \A r \in rounds : \A t \in Range(roster) :
             Cardinality(FixturesOf(schedule, r, t)) <= 1
        /\ N % 2 = 0 => \A r \in rounds : Len(schedule[r]) = N \div 2
        /\ N % 2 = 1 =>
             /\ \A r \in rounds : Len(schedule[r]) = (N - 1) \div 2
             /\ \A t \in Range(roster) :
                  Cardinality({r \in rounds : FixturesOf(schedule, r, t) = {}}) = 1
        /\ pc = "saved" =>
             /\ \A i \in 1..Len(csv) :
                  /\ csv[i][1] \in rounds
                  /\ <<csv[i][2], csv[i][3]>> \in Range(schedule[csv[i][1]])
             /\ \A r \in rounds :
                  Cardinality({i \in 1..Len(csv) : csv[i][1] = r}) = Len(schedule[r])

\* Three teams saved: weeks 1, 2 and 3 each hold one fixture.
C3_Witness ==
  /\ pc = "saved"
  /\ Len(roster) = 3
  /\ DistinctReal(roster)
  /\ {csv[i][1] : i \in 1..Len(csv)} = {1, 2, 3}

\* C4: generate_round_robin_schedule fails with a ConfigurationError, and
\* returns no schedule, whenever the list has fewer than 2 teams or holds a
\* name more than once.
C4_RejectsBadList ==
  (Generated /\ (Len(roster) < 2 \/ HasDuplicates(roster))) =>
    raised = "ConfigurationError" /\ schedule = <<>>

\* ------------------------------------------------ SpecValidate, claims
\* validate_round_robin_schedule handed a schedule that need not come from
\* the generator: up to MaxMatches rounds of one fixture each, every fixture a
\* pair of names of the team list (a team paired with itself included).
HandMadeSchedules(ts) ==
  {[r \in DOMAIN ms |-> <<ms[r]>>] :
     ms \in SeqsUpTo(Range(ts) \X Range(ts), MaxMatches)}

InitValidate ==
  /\ pc = "generated"
  /\ roster \in SeqsUpTo(Names, MaxValTeams)
  /\ teams = roster
  /\ schedule \in HandMadeSchedules(roster)
  /\ raised = "none"
  /\ valid = "none"
  /\ csv = <<>>
  /\ IdleMatch
  /\ IdleStandings
  /\ IdleRest

NextValidate == Validate

SpecValidate == InitValidate /\ [][NextValidate]_vars

RealTeams(ts) == Range(ts) \ {BYE}

\* The real opponents, other than t itself, that t meets in the schedule.
RealOpponents(sched, t) ==
  {u \in UNION {CanonicalPair(sched[p[1]][p[2]]) :
                  p \in {q \in Positions(sched) :
                           t \in CanonicalPair(sched[q[1]][q[2]])}} :
     u # t /\ u # BYE}

NoPairTwice(sched) ==
  \A p, q \in Positions(sched) :
    p # q => CanonicalPair(sched[p[1]][p[2]]) # CanonicalPair(sched[q[1]][q[2]])

\* C5: for any team list and any schedule over its names, the validator
\* passes if and only if every real team has exactly N-1 distinct real
\* opponents other than itself and no unordered pair is in more than one
\* fixture, that is, exactly when every unordered pair of distinct real teams
\* is in exactly one fixture. Stated for lists of two or
\* more distinct real names.
C5_PassIffEveryPairOnce ==
  (pc = "validated" /\ Len(teams) >= 2 /\ DistinctReal(teams)) =>
    LET real == RealTeams(teams)
    IN  /\ valid = "True" <=>
             /\ \A t \in real :
                  Cardinality(RealOpponents(schedule, t)) = Cardinality(real) - 1
             /\ NoPairTwice(schedule)
        /\ valid = "True" <=>
             \A a, b \in real : a # b => FixtureCount(schedule, a, b) = 1

\* --------------------------------------------------- SpecMatch, claims
IdleSched ==
  /\ roster = <<>>
  /\ teams = <<>>
  /\ schedule = <<>>
  /\ raised = "none"
  /\ valid = "none"
  /\ csv = <<>>

InitMatch ==
  /\ pc = "call"
  /\ team1_points \in -MaxScore..MaxScore
  /\ team2_points \in -MaxScore..MaxScore
  /\ match_result = <<>>
  /\ IdleSched
  /\ IdleStandings
  /\ IdleRest

\* A call of calculate_match_result(team1_points, team2_points).
CalculateMatchResult ==
  /\ pc = "call"
  /\ match_result' = calculate_match_result(team1_points, team2_points)
  /\ pc' = "returned"
  /\ UNCHANGED <<team1_points, team2_points, schedVars, standVars, restVars>>

NextMatch == CalculateMatchResult

SpecMatch == InitMatch /\ [][NextMatch]_vars

Mirror(result) ==
  CASE result = "win" -> "loss"
    [] result = "loss" -> "win"
    [] OTHER -> result

\* C6: calculate_match_result(a, b) returns d = a - b, with "draw" exactly
\* when |d| < 3, "win" exactly when d >= 3 and "loss" exactly when d <= -3;
\* the outcome of (b, a) is the mirror image of the outcome of (a, b).
C6_MarginOfThree ==
  pc = "returned" =>
    LET d == team1_points - team2_points
    IN  /\ match_result[2] = d
        /\ match_result[1] \in {"draw", "win", "loss"}
        /\ match_result[1] = "draw" <=> (-3 < d /\ d < 3)
        /\ match_result[1] = "win" <=> d >= 3
        /\ match_result[1] = "loss" <=> d <= -3
        /\ calculate_match_result(team2_points, team1_points)
             = <<Mirror(match_result[1]), -d>>

\* A margin of exactly 3 against team1: (10, 13) of the spec, shifted.
C6_Witness ==
  /\ pc = "returned"
  /\ team1_points = 4
  /\ team2_points = 7
  /\ match_result = <<"loss", -3>>

\* ----------------------------------------------- SpecStandings, claims
\* teams.txt of the cup whose standings are asked for.
CupRoster == <<"T01", "T02", "T03", "T04">>

\* The tournament files main() of gen_cup_schedule.py writes for the first n
\* teams of the cup, read back by get_tournament_data.
CupFixtures(n) ==
  get_tournament_data(save_tournament_to_csv(
    generate_round_robin_schedule(Pad(SubSeq(CupRoster, 1, n)))))

\* The "points:hits" values a filled cell of weeks.csv may hold.
CellValues == {[points |-> 5, hits |-> 0], [points |-> 2, hits |-> 1]}

\* The weeks the cup's fixtures fall in.
FixtureWeeks == 1..(Len(CupRoster) - 1)

\* weeks.csv in week cw with at most MaxCells filled cells, all of teams of
\* the fixture list td: the weeks after the current one hold no value yet.
WeeksTables(td, cw) ==
  UNION {[cells -> CellValues] :
           cells \in {c \in SUBSET (TeamsOf(td) \X {w \in FixtureWeeks : w <= cw}) :
                        Cardinality(c) <= MaxCells}}

\* lines 259-278: the points of the historical table.
HistoricalPoints(table) == [c \in DOMAIN table |-> ParsePoints(table[c])]

InitStandings ==
  /\ pc = "request"
  /\ tournament_data \in {CupFixtures(n) : n \in 0..Len(CupRoster)}
  /\ current_week \in 1..Len(CupRoster)
  /\ weeks_csv \in WeeksTables(tournament_data, current_week)
  /\ team_points = HistoricalPoints(weeks_csv)
  /\ deadline_passed \in BOOLEAN
  /\ standings = <<>>
  /\ idx = 0
  /\ final_standings = <<>>
  /\ IdleSched
  /\ IdleMatch
  /\ IdleRest

\* lines 473-489: one zero row per team of the fixture list.
BeginStandings ==
  /\ pc = "request"
  /\ standings' = [t \in TeamsOf(tournament_data) |-> NewRow(t)]
  /\ idx' = 0
  /\ pc' = "matches"
  /\ UNCHANGED <<inputVars, deadline_passed, final_standings, schedVars, matchVars, restVars>>

\* lines 492-524: one turn of the loop over tournament_data. The deadline
\* is asked of get_current_week_info() in this turn, not taken from the
\* request.
ProcessMatch ==
  /\ pc = "matches"
  /\ idx < Len(tournament_data)
  /\ LET match == tournament_data[idx + 1]
     IN  standings' =
           IF Scoreable(match.week, current_week, deadline_passed)
             THEN ScoreMatch(standings, match, team_points)
             ELSE standings
  /\ idx' = idx + 1
  /\ UNCHANGED <<pc, inputVars, deadline_passed, final_standings, schedVars, matchVars, restVars>>

\* The deadline of the current week passes while the request is served:
\* datetime.now() >= deadline (line 119) turns true and stays true.
DeadlinePasses ==
  /\ pc = "matches"
  /\ ~deadline_passed
  /\ deadline_passed' = TRUE
  /\ UNCHANGED <<pc, inputVars, standings, idx, final_standings, schedVars, matchVars, restVars>>

\* lines 526-544: grouping by cup points and the tiebreak of each group.
SortStandings ==
  /\ pc = "matches"
  /\ idx = Len(tournament_data)
  /\ \E order \in IterationOrders(DOMAIN standings) :
       final_standings' =
         RankStandings([i \in 1..Len(order) |-> standings[order[i]]],
                       tournament_data, team_points, weeks_csv, current_week)
  /\ pc' = "done"
  /\ UNCHANGED <<inputVars, deadline_passed, standings, idx, schedVars, matchVars, restVars>>

NextStandings == BeginStandings \/ ProcessMatch \/ DeadlinePasses \/ SortStandings

SpecStandings == InitStandings /\ [][NextStandings]_vars

RECURSIVE SumOver(_, _)
SumOver(f, S) ==
  IF S = {} THEN 0
  ELSE LET x == CHOOSE y \in S : TRUE IN f[x] + SumOver(f, S \ {x})

\* The loop of lines 492-524 takes its next turn.
Turn == pc = "matches" /\ idx' = idx + 1

\* The fixture that turn looks at.
TurnMatch == tournament_data[idx + 1]

\* C7: calculate_cup_standings lets a fixture change the standings rows if
\* and only if its week is before the current week, or is the current week
\* and the deadline has passed when the fixture is looked at; then only the
\* rows of its two teams change, and every other fixture changes no row.
C7_OnlyScoreableFixturesCount ==
  [][Turn =>
       /\ (standings' # standings) <=>
            \/ TurnMatch.week < current_week
            \/ TurnMatch.week = current_week /\ deadline_passed
       /\ \A t \in DOMAIN standings :
            t \notin {TurnMatch.team1, TurnMatch.team2} => standings'[t] = standings[t]]_vars

\* A fixture of the current week was counted because the deadline had passed,
\* and the next fixture, of a later week, was not.
C7_Witness ==
  /\ pc = "matches"
  /\ idx = 3
  /\ current_week = 1
  /\ tournament_data[1].week = 1
  /\ tournament_data[3].week = 2
  /\ standings[tournament_data[1].team1].played = 1
  /\ standings[tournament_data[3].team1].played = 1
  /\ standings[tournament_data[3].team2].played = 1

RowsAddUp(st) ==
  \A t \in DOMAIN st :
    /\ st[t].played = st[t].wins + st[t].draws + st[t].losses
    /\ st[t].cup_points = 3 * st[t].wins + st[t].draws

FieldDelta(t, field) == standings'[t][field] - standings[t][field]

\* What a counted fixture with score difference d (team1 minus team2) adds to
\* the rows of team1 and team2.
CountedAs(d) ==
  LET a == TurnMatch.team1
      b == TurnMatch.team2
  IN  /\ FieldDelta(a, "played") = 1 /\ FieldDelta(b, "played") = 1
      /\ d >= 3 =>
           /\ FieldDelta(a, "wins") = 1 /\ FieldDelta(a, "cup_points") = 3
           /\ FieldDelta(b, "losses") = 1 /\ FieldDelta(b, "cup_points") = 0
           /\ FieldDelta(a, "draws") = 0 /\ FieldDelta(a, "losses") = 0
           /\ FieldDelta(b, "draws") = 0 /\ FieldDelta(b, "wins") = 0
      /\ d <= -3 =>
           /\ FieldDelta(b, "wins") = 1 /\ FieldDelta(b, "cup_points") = 3
           /\ FieldDelta(a, "losses") = 1 /\ FieldDelta(a, "cup_points") = 0
           /\ FieldDelta(a, "draws") = 0 /\ FieldDelta(a, "wins") = 0
           /\ FieldDelta(b, "draws") = 0 /\ FieldDelta(b, "losses") = 0
      /\ (-3 < d /\ d < 3) =>
           /\ FieldDelta(a, "draws") = 1 /\ FieldDelta(a, "cup_points") = 1
           /\ FieldDelta(b, "draws") = 1 /\ FieldDelta(b, "cup_points") = 1
           /\ FieldDelta(a, "wins") = 0 /\ FieldDelta(a, "losses") = 0
           /\ FieldDelta(b, "wins") = 0 /\ FieldDelta(b, "losses") = 0
      \* the cup points the fixture awards: 3 when decisive, 2 when drawn
      /\ SumOver([t \in DOMAIN standings |-> FieldDelta(t, "cup_points")], DOMAIN standings)
           = IF d >= 3 \/ d <= -3 THEN 3 ELSE 2

ScoreDifference(match) ==
  PointsOf(team_points, match.team1, match.week)
    - PointsOf(team_points, match.team2, match.week)

\* In week 1 only fixtures of week 1 can count, and a team has one of them:
\* those looked at so far whose team1 has played. The cup points of all rows
\* are then the points awarded in that week.
WeekOneTotal ==
  current_week = 1 =>
    LET counted == {i \in 1..idx : /\ tournament_data[i].week = 1
                                   /\ standings[tournament_data[i].team1].played = 1}
        decisive == {i \in counted : Abs(ScoreDifference(tournament_data[i])) >= 3}
    IN  SumOver([t \in DOMAIN standings |-> standings[t].cup_points], DOMAIN standings)
          = 3 * Cardinality(decisive) + 2 * Cardinality(counted \ decisive)

\* C8: every counted fixture adds 1 to played for both teams and exactly one
\* of win/draw/loss to each (a win for one is a loss for the other, a draw is
\* a draw for both), 3 cup points to a winner, 1 to each team of a draw, 0 to
\* a loser, so it awards 3 cup points in all when decisive and 2 when drawn;
\* in every row, also of the returned list, played = wins + draws + losses
\* and cupPoints = 3*wins + draws, and the cup points awarded in a week are
\* 3*(decisive fixtures) + 2*(drawn fixtures) of those counted.
C8_ResultsAndCupPoints ==
  /\ [](RowsAddUp(standings)
          /\ WeekOneTotal
          /\ \A i \in 1..Len(final_standings) :
               /\ final_standings[i].played = final_standings[i].wins
                    + final_standings[i].draws + final_standings[i].losses
               /\ final_standings[i].cup_points
                    = 3 * final_standings[i].wins + final_standings[i].draws)
  /\ [][(Turn /\ standings' # standings) =>
          CountedAs(ScoreDifference(TurnMatch))]_vars

\* Week 1 of four teams counted: one decisive fixture and one drawn, 5 cup
\* points awarded in the week.
C8_Witness ==
  /\ pc = "done"
  /\ current_week = 2
  /\ Len(final_standings) = 4
  /\ \E i \in 1..4 : final_standings[i].wins = 1
  /\ \E i \in 1..4 : final_standings[i].draws = 1
  /\ SumOver([i \in 1..4 |-> final_standings[i].cup_points], 1..4) = 5

\* C9: the goalDifference values of all rows sum to zero, in the accumulator
\* and in the returned list: every counted fixture adds d to the row of its
\* team1 and subtracts d from the row of its team2.
C9_GoalDifferenceSumsToZero ==
  /\ [](/\ SumOver([t \in DOMAIN standings |-> standings[t].goal_difference],
                   DOMAIN standings) = 0
        /\ SumOver([i \in DOMAIN final_standings |-> final_standings[i].goal_difference],
                   DOMAIN final_standings) = 0)
  /\ [][(Turn /\ standings' # standings) =>
          LET d == ScoreDifference(TurnMatch)
          IN  /\ FieldDelta(TurnMatch.team1, "goal_difference") = d
              /\ FieldDelta(TurnMatch.team2, "goal_difference") = -d]_vars

\* A returned list with a team at +5 and a team at -5.
C9_Witness ==
  /\ pc = "done"
  /\ \E i, j \in 1..Len(final_standings) :
       /\ final_standings[i].goal_difference = 5
       /\ final_standings[j].goal_difference = -5

\* C10: the returned list holds every team of the fixture list exactly once
\* and no other team, its rows are the accumulator's rows unchanged, and
\* cupPoints never increases from one position to the next.
C10_RankedPermutation ==
  pc = "done" =>
    /\ Len(final_standings) = Cardinality(TeamsOf(tournament_data))
    /\ {final_standings[i].team_name : i \in 1..Len(final_standings)}
         = TeamsOf(tournament_data)
    /\ \A i \in 1..Len(final_standings) :
         final_standings[i] = standings[final_standings[i].team_name]
    /\ \A i \in 1..(Len(final_standings) - 1) :
         final_standings[i].cup_points >= final_standings[i + 1].cup_points

\* Four teams in three groups: a group of two between two single teams.
C10_Witness ==
  /\ pc = "done"
  /\ Len(final_standings) = 4
  /\ final_standings[1].cup_points > final_standings[2].cup_points
  /\ final_standings[2].cup_points = final_standings[3].cup_points
  /\ final_standings[3].cup_points > final_standings[4].cup_points

\* ------------------------------------------------ SpecTiebreak, claims
\* The goal differences a row of a tied group may carry.
GoalDifferences == {0, 3}

\* The fixtures of a list with team1 and team2 of every fixture exchanged.
SwapSides(td) ==
  [i \in 1..Len(td) |->
     [week |-> td[i].week, team1 |-> td[i].team2, team2 |-> td[i].team1]]

\* The fixture lists handed to apply_tiebreaker_rules: none, the cup of three
\* teams (one fixture a week), and the same cup with the sides exchanged.
TieFixtures == {<<>>, CupFixtures(3), SwapSides(CupFixtures(3))}

\* The groups of teams with the same cup points: up to three rows of
\* different teams, in any order.
TiedGroups ==
  LET rows == {[NewRow(t) EXCEPT !.goal_difference = g] :
                 t \in TeamsOf(CupFixtures(3)), g \in GoalDifferences}
  IN  {grp \in SeqsUpTo(rows, 3) :
         \A i, j \in 1..Len(grp) : i # j => grp[i].team_name # grp[j].team_name}

\* The "points:hits" values of the cells: scores 3, 2 and 1 apart.
TieCellValues ==
  {[points |-> 5, hits |-> 0], [points |-> 2, hits |-> 1], [points |-> 1, hits |-> 0]}

\* The current weeks of the calls: in the last of them one fixture of the cup
\* of three teams is still to come.
TieWeeks == 1..3

\* weeks.csv with at most MaxCells filled cells in the weeks before week cw.
TieTables(cw) ==
  UNION {[cells -> TieCellValues] :
           cells \in {c \in SUBSET (TeamsOf(CupFixtures(3)) \X (1..(cw - 1))) :
                        Cardinality(c) <= MaxCells}}

InitTiebreak ==
  /\ pc = "tied"
  /\ tournament_data \in TieFixtures
  /\ current_week \in TieWeeks
  /\ weeks_csv \in TieTables(current_week)
  /\ team_points = HistoricalPoints(weeks_csv)
  /\ teams_with_same_points \in TiedGroups
  /\ sorted_group = <<>>
  /\ deadline_passed = FALSE
  /\ standings = <<>>
  /\ idx = 0
  /\ final_standings = <<>>
  /\ IdleSched
  /\ IdleMatch
  /\ IdleMerge
  /\ IdleSeason
  /\ IdleFiles
  /\ IdleCup

\* line 541: the call of apply_tiebreaker_rules on one group.
ApplyTiebreakerRules ==
  /\ pc = "tied"
  /\ sorted_group' = apply_tiebreaker_rules(teams_with_same_points, tournament_data,
                                            team_points, weeks_csv, current_week)
  /\ pc' = "ranked"
  /\ UNCHANGED <<teams_with_same_points, schedVars, matchVars, standVars, mergeVars>>
  /\ UNCHANGED <<seasonVars, filesVars, cupVars>>

NextTiebreak == ApplyTiebreakerRules

SpecTiebreak == InitTiebreak /\ [][NextTiebreak]_vars

\* The fixtures between teams a and b in a week before the current one.
EarlierFixtures(a, b) ==
  {i \in 1..Len(tournament_data) :
     /\ tournament_data[i].week < current_week
     /\ {tournament_data[i].team1, tournament_data[i].team2} = {a, b}}

\* The score of team t in the week of fixture i.
WeekScore(t, i) == PointsOf(team_points, t, tournament_data[i].week)

TotalHits(t) == SumHits(weeks_csv, t, current_week - 1)

TwoTied == pc = "ranked" /\ Len(teams_with_same_points) = 2

\* C11: two teams tied on cupPoints with a decisive fixture between them in a
\* week before the current one: apply_tiebreaker_rules returns the winner of
\* that fixture first, whatever goalDifference and hits the two have,
\* whichever comes first in the group and whichever is team1 of the fixture.
C11_HeadToHeadWinnerFirst ==
  TwoTied =>
    \A w, l \in 1..2 :
      LET winner == teams_with_same_points[w]
          loser == teams_with_same_points[l]
      IN  (/\ w # l
           /\ \E i \in EarlierFixtures(winner.team_name, loser.team_name) :
                WeekScore(winner.team_name, i) - WeekScore(loser.team_name, i) >= 3)
            => sorted_group = <<winner, loser>>

\* The winner is second in the group, team2 of the fixture, has the lower
\* goal difference and the more hits, and is returned first.
C11_Witness ==
  /\ TwoTied
  /\ LET winner == teams_with_same_points[2]
         loser == teams_with_same_points[1]
     IN  /\ \E i \in EarlierFixtures(winner.team_name, loser.team_name) :
                /\ tournament_data[i].team2 = winner.team_name
                /\ WeekScore(winner.team_name, i) - WeekScore(loser.team_name, i) >= 3
         /\ winner.goal_difference < loser.goal_difference
         /\ TotalHits(winner.team_name) > TotalHits(loser.team_name)
         /\ sorted_group = <<winner, loser>>

\* C12: two teams tied on cupPoints whose fixture in a week before the
\* current one is a draw under the margin-of-3 rule with raw scores 1 or 2
\* apart: the team with the higher raw score of that week is returned first,
\* whatever the hits and goalDifference of the two are.
C12_DrawnHeadToHeadHigherScoreFirst ==
  TwoTied =>
    \A h, l \in 1..2 :
      LET higher == teams_with_same_points[h]
          lower == teams_with_same_points[l]
      IN  (/\ h # l
           /\ \E i \in EarlierFixtures(higher.team_name, lower.team_name) :
                WeekScore(higher.team_name, i) - WeekScore(lower.team_name, i) \in {1, 2})
            => sorted_group = <<higher, lower>>

\* The team that scored 2 against 1 is second in the group, has the lower
\* goal difference and the more hits, and is returned first.
C12_Witness ==
  /\ TwoTied
  /\ LET higher == teams_with_same_points[2]
         lower == teams_with_same_points[1]
     IN  /\ \E i \in EarlierFixtures(higher.team_name, lower.team_name) :
                /\ WeekScore(higher.team_name, i) = 2
                /\ WeekScore(lower.team_name, i) = 1
         /\ higher.goal_difference < lower.goal_difference
         /\ TotalHits(higher.team_name) > TotalHits(lower.team_name)
         /\ sorted_group = <<higher, lower>>

\* Fewer hits first, then the higher goal difference, then the input order.
ByHitsThenGoalDifference(a, b) ==
  IF TotalHits(a.team_name) < TotalHits(b.team_name) THEN <<a, b>>
  ELSE IF TotalHits(b.team_name) < TotalHits(a.team_name) THEN <<b, a>>
  ELSE IF a.goal_difference > b.goal_difference THEN <<a, b>>
  ELSE IF b.goal_difference > a.goal_difference THEN <<b, a>>
  ELSE <<a, b>>

\* No fixture between the two before the current week, or one in which both
\* scored the same.
NoHeadToHeadVerdict(a, b) ==
  \A i \in EarlierFixtures(a, b) : WeekScore(a, i) = WeekScore(b, i)

\* C13: two teams tied on cupPoints with no fixture between them in a week
\* before the current one, or with one in which both scored the same: the team
\* with the smaller total of hits over weeks 1..current week - 1 is returned
\* first; with equal totals the team with the higher goalDifference; with
\* equal goalDifference too the two keep their input order.
C13_HitsThenGoalDifference ==
  TwoTied =>
    LET a == teams_with_same_points[1]
        b == teams_with_same_points[2]
    IN  NoHeadToHeadVerdict(a.team_name, b.team_name)
          => sorted_group = ByHitsThenGoalDifference(a, b)

\* No fixture between the two yet, equal hits above zero, and the second
\* team of the group is returned first for its higher goal difference.
C13_Witness ==
  /\ TwoTied
  /\ LET a == teams_with_same_points[1]
         b == teams_with_same_points[2]
     IN  /\ tournament_data # <<>>
         /\ EarlierFixtures(a.team_name, b.team_name) = {}
         /\ TotalHits(a.team_name) = 1
         /\ TotalHits(b.team_name) = 1
         /\ b.goal_difference > a.goal_difference
         /\ sorted_group = <<b, a>>

\* The position of team t in a list of rows.
PlaceOf(rows, t) == CHOOSE i \in 1..Len(rows) : rows[i].team_name = t

\* C14: for three or more teams tied on cupPoints apply_tiebreaker_rules
\* returns the rows of the group ordered by ascending total hits, then by
\* descending goalDifference, rows equal on both in their input order; the
\* fixtures between the teams play no part.
C14_LargeGroupsByHitsThenGoalDifference ==
  (pc = "ranked" /\ Len(teams_with_same_points) >= 3) =>
    /\ Len(sorted_group) = Len(teams_with_same_points)
    /\ Range(sorted_group) = Range(teams_with_same_points)
    /\ \A i, j \in 1..Len(sorted_group) :
         i < j =>
           LET a == sorted_group[i]
               b == sorted_group[j]
           IN  \/ TotalHits(a.team_name) < TotalHits(b.team_name)
               \/ /\ TotalHits(a.team_name) = TotalHits(b.team_name)
                  /\ a.goal_difference > b.goal_difference
               \/ /\ TotalHits(a.team_name) = TotalHits(b.team_name)
                  /\ a.goal_difference = b.goal_difference
                  /\ PlaceOf(teams_with_same_points, a.team_name)
                       < PlaceOf(teams_with_same_points, b.team_name)

\* Three tied teams: the winner of a decisive earlier fixture is returned
\* behind the team it beat, having taken a hit, and the two teams without
\* hits and with the same goal difference keep their input order.
C14_Witness ==
  /\ pc = "ranked"
  /\ Len(teams_with_same_points) = 3
  /\ LET winner == sorted_group[3]
         loser == sorted_group[1]
     IN  /\ \E i \in EarlierFixtures(winner.team_name, loser.team_name) :
                WeekScore(winner.team_name, i) - WeekScore(loser.team_name, i) >= 3
         /\ TotalHits(winner.team_name) = 1
         /\ TotalHits(loser.team_name) = 0
         /\ TotalHits(sorted_group[2].team_name) = 0
         /\ sorted_group[1].goal_difference = sorted_group[2].goal_difference
         /\ sorted_group[1] = teams_with_same_points[2]
         /\ sorted_group[2] = teams_with_same_points[3]

\* ------------------------------------------------ SpecStandings, C15
\* C15: two invocations of calculate_cup_standings on the same fixture list,
\* score table, hits data, current week and deadline state return the same
\* teams in the same order, teams tied on every criterion included: whichever
\* order the set of team names is iterated in, the returned list is the same.
C15_OrderIndependentOfSetIteration ==
  pc = "done" =>
    \A order \in IterationOrders(DOMAIN standings) :
      RankStandings([i \in 1..Len(order) |-> standings[order[i]]],
                    tournament_data, team_points, weeks_csv, current_week)
        = final_standings

\* ---------------------------------------------------- SpecMerge, claims
\* The team names of weeks.csv and of the live feed, with their spelling.
HistoricalNames == {"John", "Johnny"}

LiveNames == {"John's XI", "JOHNNY", "Jo", "zzqq"}

Spelling(name) ==
  CASE name = "John" -> <<"J", "o", "h", "n">>
    [] name = "Johnny" -> <<"J", "o", "h", "n", "n", "y">>
    [] name = "John's XI" -> <<"J", "o", "h", "n", "'", "s", " ", "X", "I">>
    [] name = "JOHNNY" -> <<"J", "O", "H", "N", "N", "Y">>
    [] name = "Jo" -> <<"J", "o">>
    [] name = "zzqq" -> <<"z", "z", "q", "q">>
    [] name = "T01" -> <<"T", "0", "1">>
    [] name = "T02" -> <<"T", "0", "2">>
    [] name = "T03" -> <<"T", "0", "3">>
    [] name = "T04" -> <<"T", "0", "4">>

\* str.lower(), lines 186 and 290, on the letters the names use.
LowerChar(c) ==
  CASE c = "J" -> "j" [] c = "O" -> "o" [] c = "H" -> "h" [] c = "N" -> "n"
    [] c = "Y" -> "y" [] c = "X" -> "x" [] c = "I" -> "i" [] c = "T" -> "t"
    [] OTHER -> c

Lower(name) == [i \in DOMAIN Spelling(name) |-> LowerChar(Spelling(name)[i])]

\* Python's "needle in hay" on strings.
Contains(needle, hay) ==
  \E k \in 0..(Len(hay) - Len(needle)) : SubSeq(hay, k + 1, k + Len(needle)) = needle

\* The comparison without lower().
NamesMatchCaseSensitive(team_name, live_team) ==
  \/ Contains(Spelling(team_name), Spelling(live_team))
  \/ Contains(Spelling(live_team), Spelling(team_name))

\* lines 186 and 290.
NamesMatch(team_name, live_team) ==
  \/ Contains(Lower(team_name), Lower(live_team))
  \/ Contains(Lower(live_team), Lower(team_name))

\* The week columns of weeks.csv: headers is the team column and these.
CsvWeeks == 1..2

\* lines 216-224.
get_cup_weeks(cup_number) == ((cup_number - 1) * 7 + 1)..(cup_number * 7)

\* lines 126-154: every cell of every row, '0:0' where weeks.csv has none.
get_historical_data(table, rows) ==
  [c \in Range(rows) \X CsvWeeks |->
     IF c \in DOMAIN table THEN table[c] ELSE [points |-> 0, hits |-> 0]]

\* A set of numbers as the list of them in ascending order.
RECURSIVE Ascending(_)
Ascending(S) == IF S = {} THEN <<>> ELSE <<Min(S)>> \o Ascending(S \ {Min(S)})

\* lines 168-173: the dict of live values. A name met again keeps its place
\* and takes the later value.
live_data_map(live) ==
  LET firsts == {i \in DOMAIN live :
                   \A j \in 1..(i - 1) : live[j].team_name # live[i].team_name}
      last(i) == Max({j \in DOMAIN live : live[j].team_name = live[i].team_name})
      order == Ascending(firsts)
  IN  [k \in DOMAIN order |->
         [team_name |-> live[order[k]].team_name,
          value |-> [points |-> live[last(order[k])].live_points,
                     hits |-> live[last(order[k])].hits]]]

\* lines 184-188: the first entry of the dict the team matches, 0 for None.
FirstLiveMatch(team_name, map) ==
  LET found == {k \in DOMAIN map : NamesMatch(team_name, map[k].team_name)}
  IN  IF found = {} THEN 0 ELSE Min(found)

\* The except branch of lines 199-202 returning a table whose current week
\* is emptied.
OverlayClearingOnFailure(data, live, cw) ==
  IF live.raises \/ live.rows = <<>>
    THEN [c \in DOMAIN data |->
            IF c[2] = cw THEN [points |-> 0, hits |-> 0] ELSE data[c]]
  ELSE data

\* lines 163-202: the overlay of the current week's column. An exception of
\* extract_league_data leaves the table as it was read.
Overlay(data, live, cw) ==
  IF live.raises THEN data
  ELSE IF cw < Cardinality(CsvWeeks) + 1
    THEN [c \in DOMAIN data |->
            LET k == FirstLiveMatch(c[1], live_data_map(live.rows))
            IN  IF c[2] = cw /\ k # 0 THEN live_data_map(live.rows)[k].value ELSE data[c]]
  ELSE data

\* lines 156-202.
get_live_and_historical_data(table, rows, live, cw) ==
  Overlay(get_historical_data(table, rows), live, cw)

\* lines 259-278: the points of every team for the cup weeks weeks.csv has a
\* column for.
HistoricalTeamPoints(table, rows, cup_weeks) ==
  [c \in Range(rows) \X {w \in cup_weeks : w < Cardinality(CsvWeeks) + 1} |->
     IF c \in DOMAIN table THEN ParsePoints(table[c]) ELSE 0]

\* lines 289-292: the first team of the table, in row order, the live team
\* matches; 0 when there is none.
FirstTeamMatch(rows, live_team) ==
  LET found == {i \in DOMAIN rows : NamesMatch(rows[i], live_team)}
  IN  IF found = {} THEN 0 ELSE Min(found)

\* lines 284-292: the live records from the i-th on, each written to the first
\* team it matches.
RECURSIVE ApplyLive(_, _, _, _, _)
ApplyLive(tp, rows, live, i, cw) ==
  IF i > Len(live) THEN tp
  ELSE LET k == FirstTeamMatch(rows, live[i].team_name)
       IN  ApplyLive(IF k = 0 THEN tp
                     ELSE (<<rows[k], cw>> :> live[i].live_points) @@ tp,
                     rows, live, i + 1, cw)

\* lines 249-299.
get_team_points_for_cup(table, rows, live, cup_weeks, cw, passed) ==
  LET tp == HistoricalTeamPoints(table, rows, cup_weeks)
  IN  IF cw \in cup_weeks /\ passed /\ ~live.raises
        THEN ApplyLive(tp, rows, live.rows, 1, cw)
        ELSE tp

\* The most live records of one answer of the provider.
MaxLive == 2

\* The most rows of weeks.csv.
MaxRows == 2

\* The frames of the live feed: the i-th record reports 6 + i points and i
\* hits, so that no two records and no cell of weeks.csv hold the same value.
LiveFrames ==
  {[i \in DOMAIN names |->
      [team_name |-> names[i], live_points |-> 6 + i, hits |-> i]] :
     names \in SeqsUpTo(LiveNames, MaxLive)}

\* What a call of extract_league_data may do: raise, or return a frame of up
\* to MaxLive records, none when the fetch or the parse failed.
LiveAnswers ==
  {[raises |-> TRUE, rows |-> <<>>]}
    \cup {[raises |-> FALSE, rows |-> r] : r \in LiveFrames}

\* The team columns of weeks.csv: different names in any order.
TeamColumns ==
  {rows \in SeqsUpTo(HistoricalNames, MaxRows) :
     \A i, j \in DOMAIN rows : i # j => rows[i] # rows[j]}

\* weeks.csv with at most MaxCells filled cells.
MergeTables(rows) ==
  UNION {[cells -> CellValues] :
           cells \in {c \in SUBSET (Range(rows) \X CsvWeeks) :
                        Cardinality(c) <= MaxCells}}

\* The current weeks of the requests: the last week weeks.csv has a column
\* for, and the week after it.
MergeWeeks == {Cardinality(CsvWeeks), Cardinality(CsvWeeks) + 1}

InitMerge ==
  /\ pc = "merge"
  /\ historical_teams \in TeamColumns
  /\ weeks_csv \in MergeTables(historical_teams)
  /\ current_week \in MergeWeeks
  /\ deadline_passed \in BOOLEAN
  /\ live_df \in LiveAnswers
  /\ historical_data = <<>>
  /\ team_points = <<>>
  /\ tournament_data = <<>>
  /\ standings = <<>>
  /\ idx = 0
  /\ final_standings = <<>>
  /\ IdleSched
  /\ IdleMatch
  /\ IdleTie
  /\ IdleSeason
  /\ IdleFiles
  /\ IdleCup

\* get_weeks_data, lines 30-37: the table of the week page.
GetWeeksData ==
  /\ pc = "merge"
  /\ historical_data' =
       IF deadline_passed
         THEN get_live_and_historical_data(weeks_csv, historical_teams, live_df, current_week)
         ELSE get_historical_data(weeks_csv, historical_teams)
  /\ pc' = "week_page"
  /\ UNCHANGED <<historical_teams, live_df, schedVars, matchVars, standVars, tieVars>>
  /\ UNCHANGED <<seasonVars, filesVars, cupVars>>

\* get_cup_data, line 67: the score table of cup 1.
GetTeamPointsForCup ==
  /\ pc = "merge"
  /\ team_points' = get_team_points_for_cup(weeks_csv, historical_teams, live_df,
                                            get_cup_weeks(1), current_week, deadline_passed)
  /\ pc' = "cup_page"
  /\ UNCHANGED <<weeks_csv, tournament_data, current_week, deadline_passed,
                 standings, idx, final_standings>>
  /\ UNCHANGED <<schedVars, matchVars, tieVars, mergeVars, seasonVars, filesVars, cupVars>>

NextMerge == GetWeeksData \/ GetTeamPointsForCup

SpecMerge == InitMerge /\ [][NextMerge]_vars

\* The pairs <<historical name, live name>> that match when case is ignored
\* and either name may contain the other, written out by hand.
MatchingNames ==
  {<<"John", "John's XI">>, <<"John", "JOHNNY">>, <<"John", "Jo">>,
   <<"Johnny", "JOHNNY">>, <<"Johnny", "Jo">>}

\* The live records whose name matches historical team t.
LiveRecordsFor(t) ==
  {i \in DOMAIN live_df.rows : <<t, live_df.rows[i].team_name>> \in MatchingNames}

\* The historical value of a cell of weeks.csv, 0:0 when it is absent.
HistoricalCell(t, w) ==
  IF <<t, w>> \in DOMAIN weeks_csv THEN weeks_csv[<<t, w>>]
  ELSE [points |-> 0, hits |-> 0]

\* The value record i of the live feed stands for in the week page's table.
LiveCell(i) ==
  [points |-> live_df.rows[i].live_points, hits |-> live_df.rows[i].hits]

\* The week page: cells differ from weeks.csv only in the current week, only
\* for matched teams, and then hold the value of a record that matches.
WeekPageFrame ==
  pc = "week_page" =>
    /\ DOMAIN historical_data = Range(historical_teams) \X CsvWeeks
    /\ \A c \in DOMAIN historical_data :
         \/ historical_data[c] = HistoricalCell(c[1], c[2])
         \/ /\ c[2] = current_week
            /\ \E i \in LiveRecordsFor(c[1]) : historical_data[c] = LiveCell(i)
    \* the merge took place: every matched team holds a live value
    /\ (deadline_passed /\ ~live_df.raises /\ current_week \in CsvWeeks) =>
         \A t \in Range(historical_teams) :
           LiveRecordsFor(t) # {} =>
             \E i \in LiveRecordsFor(t) : historical_data[<<t, current_week>>] = LiveCell(i)

\* The first team of weeks.csv, in row order, that live record i matches.
FirstTeamFor(i) ==
  LET found == {k \in DOMAIN historical_teams :
                  <<historical_teams[k], live_df.rows[i].team_name>> \in MatchingNames}
  IN  IF found = {} THEN 0 ELSE Min(found)

\* The cup page: the same for the points of the score table.
CupPageFrame ==
  pc = "cup_page" =>
    /\ DOMAIN team_points \subseteq Range(historical_teams) \X get_cup_weeks(1)
    /\ \A t \in Range(historical_teams), w \in get_cup_weeks(1) :
         \/ PointsOf(team_points, t, w) = HistoricalCell(t, w).points
         \/ /\ w = current_week
            /\ \E i \in LiveRecordsFor(t) :
                 PointsOf(team_points, t, w) = live_df.rows[i].live_points
    \* the merge took place: the first team a record matches holds a live value
    /\ (deadline_passed /\ ~live_df.raises) =>
         \A i \in DOMAIN live_df.rows :
           FirstTeamFor(i) # 0 =>
             LET t == historical_teams[FirstTeamFor(i)]
             IN  \E j \in LiveRecordsFor(t) :
                   PointsOf(team_points, t, current_week) = live_df.rows[j].live_points

\* C17: merging a live feed into the historical table changes only cells of
\* the current week, and only of historical teams whose name matches a live
\* record when case is ignored and either name may contain the other; such a
\* cell holds that record's points (and hits, on the week page); every cell of
\* another week and the current-week cell of an unmatched team keep their
\* historical value, 0:0 when absent.
C17_OverlayOnlyCurrentWeekOfMatchedTeams ==
  WeekPageFrame /\ CupPageFrame

\* The week page: "John" takes the value of the record "John's XI" in the
\* current week, "Johnny", which that record does not match, keeps its 2:1,
\* and week 1 is as it was.
C17_Witness ==
  /\ pc = "week_page"
  /\ deadline_passed
  /\ current_week = 2
  /\ historical_teams = <<"Johnny", "John">>
  /\ live_df.rows = <<[team_name |-> "John's XI", live_points |-> 7, hits |-> 1]>>
  /\ weeks_csv = (<<"John", 1>> :> [points |-> 5, hits |-> 0])
                   @@ (<<"Johnny", 2>> :> [points |-> 2, hits |-> 1])
  /\ historical_data[<<"John", 2>>] = [points |-> 7, hits |-> 1]
  /\ historical_data[<<"John", 1>>] = [points |-> 5, hits |-> 0]
  /\ historical_data[<<"Johnny", 2>>] = [points |-> 2, hits |-> 1]

\* The historical teams whose current-week cell holds the value of record i.
TeamsHolding(i) ==
  {t \in Range(historical_teams) :
     IF pc = "week_page"
       THEN historical_data[<<t, current_week>>] = LiveCell(i)
       ELSE PointsOf(team_points, t, current_week) = live_df.rows[i].live_points}

\* C18: in both merge paths a live record overlays at most one historical
\* team, the first in table order whose name matches it: no record's value is
\* written to two historical teams.
C18_OneTeamPerLiveRecord ==
  ((pc = "week_page" /\ current_week \in CsvWeeks) \/ pc = "cup_page") =>
    \A i \in DOMAIN live_df.rows :
      /\ Cardinality(TeamsHolding(i)) <= 1
      /\ \A t \in TeamsHolding(i) : t = historical_teams[FirstTeamFor(i)]

\* C19: when the live fetch fails (extract_league_data raises, or returns no
\* record after a network or parse error) neither merge path raises: the
\* request completes and every cell of the returned table holds its
\* historical value, zero when absent, the current week included.
C19_FetchFailureKeepsHistoricalTable ==
  (live_df.raises \/ live_df.rows = <<>>) =>
    /\ pc = "week_page" =>
         /\ DOMAIN historical_data = Range(historical_teams) \X CsvWeeks
         /\ \A c \in DOMAIN historical_data :
              historical_data[c] = HistoricalCell(c[1], c[2])
    /\ pc = "cup_page" =>
         /\ DOMAIN team_points \subseteq Range(historical_teams) \X get_cup_weeks(1)
         /\ \A t \in Range(historical_teams), w \in get_cup_weeks(1) :
              PointsOf(team_points, t, w) = HistoricalCell(t, w).points

\* The week page after the deadline, the fetch raised, and the current week
\* of both teams as weeks.csv has it: one value and one absent cell.
C19_Witness ==
  /\ pc = "week_page"
  /\ deadline_passed
  /\ live_df.raises
  /\ current_week = 2
  /\ Len(historical_teams) = 2
  /\ historical_data[<<"John", 2>>] = [points |-> 5, hits |-> 0]
  /\ historical_data[<<"Johnny", 2>>] = [points |-> 0, hits |-> 0]

\* --------------------------------------------------- SpecSeason, claims
\* lines 492-524 from fixture i on, get_current_week_info() answering the
\* same for every fixture.
RECURSIVE AccumulateFrom(_, _, _, _, _, _)
AccumulateFrom(st, td, tp, cw, passed, i) ==
  IF i > Len(td) THEN st
  ELSE AccumulateFrom(IF Scoreable(td[i].week, cw, passed)
                        THEN ScoreMatch(st, td[i], tp) ELSE st,
                      td, tp, cw, passed, i + 1)

\* The last week of the season the model follows.
LastWeek == 2

\* The teams of the cup, as teams.txt, weeks.csv and the live feed name them.
SeasonRoster == SubSeq(CupRoster, 1, 3)

\* The live scores a team may stand at during a week.
LiveScores == {0, 5}

\* The provider's frame for the scores p, one record per team.
LiveFrame(p) ==
  [raises |-> FALSE,
   rows |-> [i \in DOMAIN SeasonRoster |->
               [team_name |-> SeasonRoster[i], live_points |-> p[i], hits |-> 0]]]

\* Nobody has scored yet.
NoScores == [i \in DOMAIN SeasonRoster |-> 0]

InitSeason ==
  /\ pc = "season"
  /\ tournament_data = CupFixtures(Len(SeasonRoster))
  /\ historical_teams = SeasonRoster
  /\ weeks_csv = <<>>
  /\ current_week = 1
  /\ deadline_passed = FALSE
  /\ live_df = LiveFrame(NoScores)
  /\ team_points = <<>>
  /\ standings = <<>>
  /\ idx = 0
  /\ final_standings = <<>>
  /\ historical_data = <<>>
  /\ first_request = NoRequest
  /\ second_request = NoRequest
  /\ IdleSched
  /\ IdleMatch
  /\ IdleTie
  /\ IdleFiles
  /\ IdleCup

\* The deadline of the current week passes (line 119 turns true): the week's
\* matches begin.
SeasonDeadlinePasses ==
  /\ ~deadline_passed
  /\ deadline_passed' = TRUE
  /\ UNCHANGED <<pc, weeks_csv, tournament_data, team_points, current_week,
                 standings, idx, final_standings, historical_teams, live_df,
                 historical_data, seasonVars>>
  /\ UNCHANGED <<schedVars, matchVars, tieVars, filesVars, cupVars>>

\* A team scores during the week: its live score goes up.
LiveScoresChange ==
  /\ deadline_passed
  /\ \E i \in DOMAIN SeasonRoster, v \in LiveScores :
       /\ v > live_df.rows[i].live_points
       /\ live_df' = [live_df EXCEPT !.rows[i].live_points = v]
  /\ UNCHANGED <<pc, weeks_csv, tournament_data, team_points, current_week,
                 deadline_passed, standings, idx, final_standings,
                 historical_teams, historical_data, seasonVars>>
  /\ UNCHANGED <<schedVars, matchVars, tieVars, filesVars, cupVars>>

\* The week is over: its final scores, the live scores as they stand, go into
\* weeks.csv, and deadlines.txt gets the line of the next week.
WeekEnds ==
  /\ deadline_passed
  /\ current_week < LastWeek
  /\ weeks_csv' =
       [c \in {<<SeasonRoster[i], current_week>> : i \in DOMAIN SeasonRoster} |->
          LET i == CHOOSE k \in DOMAIN SeasonRoster : SeasonRoster[k] = c[1]
          IN  [points |-> live_df.rows[i].live_points, hits |-> live_df.rows[i].hits]]
         @@ weeks_csv
  /\ current_week' = current_week + 1
  /\ deadline_passed' = FALSE
  /\ live_df' = LiveFrame(NoScores)
  /\ UNCHANGED <<pc, tournament_data, team_points, standings, idx, final_standings,
                 historical_teams, historical_data, seasonVars>>
  /\ UNCHANGED <<schedVars, matchVars, tieVars, filesVars, cupVars>>

\* get_cup_data, lines 56-88, for cup 1: the score table is rebuilt from
\* weeks.csv and the live feed, the standings from the score table. The
\* request before this one may be kept as the earlier of a pair.
CupRequest ==
  /\ team_points' = get_team_points_for_cup(weeks_csv, historical_teams, live_df,
                                            get_cup_weeks(1), current_week, deadline_passed)
  /\ standings' = AccumulateFrom([t \in TeamsOf(tournament_data) |-> NewRow(t)],
                                 tournament_data, team_points', current_week,
                                 deadline_passed, 1)
  /\ idx' = Len(tournament_data)
  /\ \E order \in IterationOrders(TeamsOf(tournament_data)) :
       final_standings' =
         RankStandings([i \in 1..Len(order) |-> standings'[order[i]]],
                       tournament_data, team_points', weeks_csv, current_week)
  /\ second_request' = [current_week |-> current_week,
                        deadline_passed |-> deadline_passed,
                        standings |-> final_standings']
  /\ first_request' \in {first_request, second_request}
  /\ UNCHANGED <<pc, weeks_csv, tournament_data, current_week, deadline_passed,
                 historical_teams, live_df, historical_data>>
  /\ UNCHANGED <<schedVars, matchVars, tieVars, filesVars, cupVars>>

NextSeason == SeasonDeadlinePasses \/ LiveScoresChange \/ WeekEnds \/ CupRequest

SpecSeason == InitSeason /\ [][NextSeason]_vars

\* Request b was made at a later point of the season than request a.
LaterRequest(a, b) ==
  \/ a.current_week < b.current_week
  \/ a.current_week = b.current_week /\ ~a.deadline_passed /\ b.deadline_passed

CupPointsIn(req, t) == req.standings[PlaceOf(req.standings, t)].cup_points

\* C16: of two standings requests of the same cup, the second made at a later
\* point of the season (a later current week, or the same week after its
\* deadline passed), every team has at least as many cupPoints in the second
\* result as in the first.
C16_CupPointsNeverDecrease ==
  (/\ first_request # NoRequest
   /\ second_request # NoRequest
   /\ LaterRequest(first_request, second_request))
    => \A t \in TeamsOf(tournament_data) :
         CupPointsIn(second_request, t) >= CupPointsIn(first_request, t)

\* ---------------------------------------------------- SpecFiles, claims
\* main() writes tournaments 1..5 (line 108); the model follows the first
\* MaxTournament of them.
MaxTournament == 2

\* lines 112-113: the orders random.shuffle may leave the copy of teams in.
Shuffles(ts) == IterationOrders(Range(ts))

\* lines 111-125, one turn of the loop for the shuffled list: the rows written
\* to the tournament's file, none when the validation failed.
TournamentRows(shuffled_teams) ==
  LET padded == Pad(shuffled_teams)
      sched == generate_round_robin_schedule(padded)
  IN  IF validate_round_robin_schedule(padded, sched) = "True"
        THEN save_tournament_to_csv(sched)
        ELSE <<>>

InitFiles ==
  /\ pc = "shell"
  /\ tournament_files = [k \in 1..MaxTournament |-> <<>>]
  /\ first_generated = [k \in 1..MaxTournament |-> <<>>]
  /\ tournament_num = 0
  /\ requested_cup = 0
  /\ IdleSched
  /\ IdleMatch
  /\ IdleStandings
  /\ IdleTie
  /\ IdleMerge
  /\ IdleSeason
  /\ IdleCup

\* python gen_cup_schedule.py: main() starts, lines 101-108.
StartMain ==
  /\ pc = "shell"
  /\ pc' = "main"
  /\ tournament_num' = 1
  /\ UNCHANGED <<tournament_files, first_generated, requested_cup>>
  /\ UNCHANGED <<schedVars, matchVars, standVars, tieVars, mergeVars, seasonVars, cupVars>>

\* lines 108-130: one turn of the loop. open(filename, 'w') of line 93
\* replaces whatever the file held.
GenerateTournament ==
  /\ pc = "main"
  /\ tournament_num <= MaxTournament
  /\ \E shuffled_teams \in Shuffles(SeasonRoster) :
       LET rows == TournamentRows(shuffled_teams)
       IN  /\ tournament_files' =
                 IF rows = <<>> THEN tournament_files
                 ELSE [tournament_files EXCEPT ![tournament_num] = rows]
           /\ first_generated' =
                 IF rows = <<>> \/ first_generated[tournament_num] # <<>>
                   THEN first_generated
                 ELSE [first_generated EXCEPT ![tournament_num] = rows]
  /\ tournament_num' = tournament_num + 1
  /\ UNCHANGED <<pc, requested_cup>>
  /\ UNCHANGED <<schedVars, matchVars, standVars, tieVars, mergeVars, seasonVars, cupVars>>

\* The loop of main() is over.
FinishMain ==
  /\ pc = "main"
  /\ tournament_num > MaxTournament
  /\ pc' = "shell"
  /\ tournament_num' = 0
  /\ UNCHANGED <<tournament_files, first_generated, requested_cup>>
  /\ UNCHANGED <<schedVars, matchVars, standVars, tieVars, mergeVars, seasonVars, cupVars>>

\* get_cup_data, line 64: a standings request reads the fixtures of a cup; a
\* missing file reads as no fixture (lines 245-247).
ReadTournament ==
  /\ \E k \in 1..MaxTournament :
       /\ requested_cup' = k
       /\ tournament_data' = get_tournament_data(tournament_files[k])
  /\ UNCHANGED <<pc, tournament_files, first_generated, tournament_num>>
  /\ UNCHANGED <<weeks_csv, team_points, current_week, deadline_passed, standings,
                 idx, final_standings>>
  /\ UNCHANGED <<schedVars, matchVars, tieVars, mergeVars, seasonVars, cupVars>>

NextFiles == StartMain \/ GenerateTournament \/ FinishMain \/ ReadTournament

SpecFiles == InitFiles /\ [][NextFiles]_vars

\* C20: once a fixture list has been saved for cup k no later run of the
\* generator changes it: after any sequence of generator runs and standings
\* requests the fixtures a request reads for cup k are the ones first
\* generated for it.
C20_SavedFixturesNeverChange ==
  \A k \in 1..MaxTournament :
    first_generated[k] # <<>> =>
      get_tournament_data(tournament_files[k]) = get_tournament_data(first_generated[k])

\* C23: for every cup number k, every fixture the generator has saved for cup
\* k has a week number inside the week range of cup k, 7(k-1)+1..7k, as
\* get_cup_weeks(k) returns it.
C23_SavedWeeksInsideCupWeeks ==
  \A k \in 1..MaxTournament :
    \A i \in DOMAIN tournament_files[k] :
      tournament_files[k][i][1] \in get_cup_weeks(k)

\* ------------------------------------------------------ SpecCup, claims
\* line 555: the cup weeks up to the current one, in the order of cup_weeks.
weeks_to_show(cup_weeks, cw) == Ascending({week \in cup_weeks : week <= cw})

\* line 558: the fixtures of one week, in the order of the file.
week_matches(td, week) == SelectSeq(td, LAMBDA m : m.week = week)

\* line 579: "Chưa đấu", not yet played. A result string is modelled by the
\* parts it is formatted from: the wording, the two scores and the team named.
NotYetPlayed == [text |-> "Chua dau", team1_points |-> 0, team2_points |-> 0, team |-> ""]

\* The result string with a margin of exactly 3 worded as a draw.
result_text_inclusive(match, tp) ==
  LET t1p == PointsOf(tp, match.team1, match.week)
      t2p == PointsOf(tp, match.team2, match.week)
      result == calculate_match_result_inclusive(t1p, t2p)[1]
  IN  [text |-> IF result = "draw" THEN "Hoa" ELSE "Thang",
       team1_points |-> t1p,
       team2_points |-> t2p,
       team |-> IF result = "win" THEN match.team1
                ELSE IF result = "draw" THEN "" ELSE match.team2]

\* lines 567-577: "{team1_points}-{team2_points} (Thắng {team1})", "... (Hòa)"
\* or "... (Thắng {team2})".
result_text(match, tp) ==
  LET t1p == PointsOf(tp, match.team1, match.week)
      t2p == PointsOf(tp, match.team2, match.week)
      result == calculate_match_result(t1p, t2p)[1]
  IN  [text |-> IF result = "draw" THEN "Hoa" ELSE "Thang",
       team1_points |-> t1p,
       team2_points |-> t2p,
       team |-> IF result = "win" THEN match.team1
                ELSE IF result = "draw" THEN "" ELSE match.team2]

\* lines 561-585: the entry of one fixture; passed is what
\* get_current_week_info()[1] answers when line 566 asks.
ScheduleMatch(match, tp, cw, passed) ==
  [team1 |-> match.team1,
   team2 |-> match.team2,
   result |-> IF Scoreable(match.week, cw, passed)
                THEN result_text(match, tp) ELSE NotYetPlayed]

\* The current weeks of the cup requests: inside the weeks of cup 1 that have
\* fixtures, and the first week of cup 2.
RequestWeeks == {2, 3, 8}

\* weeks.csv at the time of a request in week cw: every team has its score of
\* the weeks before cw the file has a column for; the teams of strong scored
\* 5 with no hit, the others 2 with one hit.
CupTables(cw) ==
  {[c \in Range(CupRoster) \X {w \in CsvWeeks : w < cw} |->
      IF c[1] \in strong THEN [points |-> 5, hits |-> 0]
      ELSE [points |-> 2, hits |-> 1]] :
     strong \in SUBSET {CupRoster[1], CupRoster[2]}}

\* What extract_league_data may do during a cup request: raise, or return one
\* record per team, the first two teams standing at a score of LiveScores.
CupLiveAnswers ==
  {[raises |-> TRUE, rows |-> <<>>]}
    \cup {[raises |-> FALSE,
           rows |-> [i \in DOMAIN CupRoster |->
                       [team_name |-> CupRoster[i],
                        live_points |-> IF i <= 2 THEN p[i] ELSE 0,
                        hits |-> 0]]] :
            p \in [1..2 -> LiveScores]}

InitCup ==
  /\ pc = "cup_request"
  /\ tournament_files = [k \in 1..MaxTournament |-> TournamentRows(CupRoster)]
  /\ first_generated = tournament_files
  /\ tournament_num = 0
  /\ requested_cup = 0
  /\ historical_teams = CupRoster
  /\ current_week \in RequestWeeks
  /\ weeks_csv \in CupTables(current_week)
  /\ deadline_passed \in BOOLEAN
  /\ live_df \in CupLiveAnswers
  /\ historical_data = <<>>
  /\ tournament_data = <<>>
  /\ team_points = <<>>
  /\ standings = <<>>
  /\ idx = 0
  /\ final_standings = <<>>
  /\ IdleSched
  /\ IdleMatch
  /\ IdleTie
  /\ IdleSeason
  /\ IdleCup

\* get_cup_data, lines 58-67: the deadline is read once into the local
\* deadline_passed, which decides the overlay of the live scores.
GetCupData ==
  /\ pc = "cup_request"
  /\ \E k \in 1..MaxTournament :
       /\ requested_cup' = k
       /\ tournament_data' = get_tournament_data(tournament_files[k])
       /\ team_points' = get_team_points_for_cup(weeks_csv, historical_teams, live_df,
                                                 get_cup_weeks(k), current_week,
                                                 deadline_passed)
  /\ cup_deadline_passed' = deadline_passed
  /\ pc' = "request"
  /\ UNCHANGED <<weeks_csv, current_week, deadline_passed, standings, idx, final_standings>>
  /\ UNCHANGED <<tournament_files, first_generated, tournament_num>>
  /\ UNCHANGED <<cup_schedule, weeks_shown, matches_with_results, cup_info>>
  /\ UNCHANGED <<schedVars, matchVars, tieVars, mergeVars, seasonVars>>

\* The weeks the loop of line 557 goes through.
CupWeeksToShow == weeks_to_show(get_cup_weeks(requested_cup), current_week)

\* lines 552-555, after calculate_cup_standings has returned (line 70).
BeginSchedule ==
  /\ pc = "done"
  /\ cup_schedule' = <<>>
  /\ weeks_shown' = 0
  /\ matches_with_results' = <<>>
  /\ pc' = "schedule"
  /\ UNCHANGED <<cup_deadline_passed, cup_info>>
  /\ UNCHANGED <<schedVars, matchVars, standVars, tieVars, mergeVars, seasonVars, filesVars>>

\* lines 561-585: one turn of the loop over week_matches. The deadline is
\* asked of get_current_week_info() in this turn, line 566.
AnnotateMatch ==
  /\ pc = "schedule"
  /\ weeks_shown < Len(CupWeeksToShow)
  /\ LET matches == week_matches(tournament_data, CupWeeksToShow[weeks_shown + 1])
     IN  /\ Len(matches_with_results) < Len(matches)
         /\ matches_with_results' =
              Append(matches_with_results,
                     ScheduleMatch(matches[Len(matches_with_results) + 1], team_points,
                                   current_week, deadline_passed))
  /\ UNCHANGED <<pc, cup_deadline_passed, cup_schedule, weeks_shown, cup_info>>
  /\ UNCHANGED <<schedVars, matchVars, standVars, tieVars, mergeVars, seasonVars, filesVars>>

\* lines 587-590: the week's fixtures are done, its entry goes into schedule.
CloseWeek ==
  /\ pc = "schedule"
  /\ weeks_shown < Len(CupWeeksToShow)
  /\ LET week == CupWeeksToShow[weeks_shown + 1]
     IN  /\ Len(matches_with_results) = Len(week_matches(tournament_data, week))
         /\ cup_schedule' = Append(cup_schedule,
                                   [week |-> week,
                                    matches |-> matches_with_results,
                                    is_current |-> week = current_week])
  /\ weeks_shown' = weeks_shown + 1
  /\ matches_with_results' = <<>>
  /\ UNCHANGED <<pc, cup_deadline_passed, cup_info>>
  /\ UNCHANGED <<schedVars, matchVars, standVars, tieVars, mergeVars, seasonVars, filesVars>>

\* The deadline of the current week passes while prepare_cup_schedule runs.
DeadlinePassesInSchedule ==
  /\ pc = "schedule"
  /\ ~deadline_passed
  /\ deadline_passed' = TRUE
  /\ UNCHANGED <<pc, inputVars, standings, idx, final_standings, schedVars, matchVars, restVars>>

\* lines 76-88: cup_info carries the local deadline_passed of line 58.
Respond ==
  /\ pc = "schedule"
  /\ weeks_shown = Len(CupWeeksToShow)
  /\ cup_info' = [current_week |-> current_week,
                  deadline_passed |-> cup_deadline_passed,
                  weeks |-> get_cup_weeks(requested_cup)]
  /\ pc' = "responded"
  /\ UNCHANGED <<cup_deadline_passed, cup_schedule, weeks_shown, matches_with_results>>
  /\ UNCHANGED <<schedVars, matchVars, standVars, tieVars, mergeVars, seasonVars, filesVars>>

NextCup ==
  \/ GetCupData
  \/ BeginStandings
  \/ ProcessMatch
  \/ DeadlinePasses
  \/ SortStandings
  \/ BeginSchedule
  \/ AnnotateMatch
  \/ CloseWeek
  \/ DeadlinePassesInSchedule
  \/ Respond

SpecCup == InitCup /\ [][NextCup]_vars

\* The cup weeks the schedule view of the request has to show.
WeeksDue ==
  {w \in (7 * (requested_cup - 1) + 1)..(7 * requested_cup) : w <= current_week}

\* The positions in the file of the fixtures of week w.
FixturesIn(w) == {j \in DOMAIN tournament_data : tournament_data[j].week = w}

\* The schedule view has one entry for each cup week up to the current one and
\* for no other week, each entry lists the fixtures of its week once each, in
\* the order of the file, and marks the current week only.
ScheduleShape ==
  /\ Len(cup_schedule) = Cardinality(WeeksDue)
  /\ {cup_schedule[i].week : i \in DOMAIN cup_schedule} = WeeksDue
  /\ \A i \in DOMAIN cup_schedule :
       LET entry == cup_schedule[i]
           listed == Ascending(FixturesIn(entry.week))
       IN  /\ entry.is_current <=> entry.week = current_week
           /\ Len(entry.matches) = Len(listed)
           /\ \A n \in DOMAIN listed :
                /\ entry.matches[n].team1 = tournament_data[listed[n]].team1
                /\ entry.matches[n].team2 = tournament_data[listed[n]].team2

\* The result string the margin-of-3 rule gives a fixture on the request's
\* score table, a missing score counting as 0.
MarginOfThreeText(f) ==
  LET s1 == IF <<f.team1, f.week>> \in DOMAIN team_points
              THEN team_points[<<f.team1, f.week>>] ELSE 0
      s2 == IF <<f.team2, f.week>> \in DOMAIN team_points
              THEN team_points[<<f.team2, f.week>>] ELSE 0
  IN  [text |-> IF s1 - s2 >= 3 \/ s2 - s1 >= 3 THEN "Thang" ELSE "Hoa",
       team1_points |-> s1,
       team2_points |-> s2,
       team |-> IF s1 - s2 >= 3 THEN f.team1
                ELSE IF s2 - s1 >= 3 THEN f.team2 ELSE ""]

\* The loop of lines 561-585 takes its next turn.
AnnotateTurn ==
  pc = "schedule" /\ Len(matches_with_results') = Len(matches_with_results) + 1

\* The fixture that turn looks at.
AnnotateTurnMatch ==
  tournament_data[Ascending(FixturesIn(CupWeeksToShow[weeks_shown + 1]))
                    [Len(matches_with_results) + 1]]

\* The matches of the schedule view that involve team t and satisfy test.
ShownMatches(t, test(_)) ==
  {<<i, n>> \in (DOMAIN cup_schedule) \X (DOMAIN tournament_data) :
     /\ n \in DOMAIN cup_schedule[i].matches
     /\ t \in {cup_schedule[i].matches[n].team1, cup_schedule[i].matches[n].team2}
     /\ test(cup_schedule[i].matches[n].result)}

\* The rows of the standings count, for every team, as many played fixtures,
\* wins and draws as the result strings of the schedule view say.
StandingsAgreeWithSchedule ==
  \A t \in DOMAIN standings :
    /\ standings[t].played =
         Cardinality(ShownMatches(t, LAMBDA r : r.text # "Chua dau"))
    /\ standings[t].wins =
         Cardinality(ShownMatches(t, LAMBDA r : r.text = "Thang" /\ r.team = t))
    /\ standings[t].draws =
         Cardinality(ShownMatches(t, LAMBDA r : r.text = "Hoa"))

\* C21: prepare_cup_schedule returns an entry for exactly the cup weeks up to
\* the current week; every fixture of such a week appears once in its entry;
\* is_current is true for the current week only; a fixture is annotated with
\* both scores and the outcome of the margin-of-3 rule if its week is before
\* the current week, or is the current week and the deadline has passed when
\* the fixture is looked at, and with the not-yet-played marker otherwise; and
\* when the deadline did not pass during the request and every fixture's week
\* is a cup week, the outcomes are the ones calculate_cup_standings counted.
C21_ScheduleViewOfCupWeeks ==
  /\ [](pc = "responded" =>
          /\ ScheduleShape
          /\ (/\ cup_deadline_passed = deadline_passed
              /\ \A j \in DOMAIN tournament_data :
                   tournament_data[j].week \in cup_info.weeks)
               => StandingsAgreeWithSchedule)
  /\ [][AnnotateTurn =>
          matches_with_results'[Len(matches_with_results')] =
            [team1 |-> AnnotateTurnMatch.team1,
             team2 |-> AnnotateTurnMatch.team2,
             result |->
               IF \/ AnnotateTurnMatch.week < current_week
                  \/ AnnotateTurnMatch.week = current_week /\ deadline_passed
                 THEN MarginOfThreeText(AnnotateTurnMatch)
                 ELSE NotYetPlayed]]_vars

\* A request for cup 1 in week 2 before the deadline: the view has the weeks 1
\* and 2 only, a fixture of week 1 is won 5-2, the fixtures of week 2 are all
\* marked as not yet played, and week 2 alone is the current one.
C21_Witness ==
  /\ pc = "responded"
  /\ requested_cup = 1
  /\ current_week = 2
  /\ ~deadline_passed
  /\ Len(cup_schedule) = 2
  /\ \E n \in DOMAIN cup_schedule[1].matches :
       /\ cup_schedule[1].matches[n].result.text = "Thang"
       /\ cup_schedule[1].matches[n].result.team1_points = 5
       /\ cup_schedule[1].matches[n].result.team2_points = 2
       /\ cup_schedule[1].matches[n].result.team = cup_schedule[1].matches[n].team1
  /\ ~cup_schedule[1].is_current
  /\ cup_schedule[2].is_current
  /\ Len(cup_schedule[2].matches) = 2
  /\ \A n \in DOMAIN cup_schedule[2].matches :
       cup_schedule[2].matches[n].result = NotYetPlayed
  /\ \E t \in DOMAIN standings : standings[t].wins = 1

\* The fixtures of the current week the standings counted: the fixtures played
\* by all rows together, less the fixtures of the weeks before.
CountedNow ==
  SumOver([t \in DOMAIN standings |-> standings[t].played], DOMAIN standings) \div 2
    - Cardinality({j \in DOMAIN tournament_data :
                     tournament_data[j].week < current_week})

\* The matches of the current week's entry of the schedule view.
ShownNow ==
  {<<i, n>> \in (DOMAIN cup_schedule) \X (DOMAIN tournament_data) :
     /\ cup_schedule[i].week = current_week
     /\ n \in DOMAIN cup_schedule[i].matches}

\* C22: within one cup request a single deadline-passed value is used: the
\* value reported in cup_info is the one that decided the overlay of the live
\* scores, and the current week's fixtures are all counted in the standings
\* and all annotated with a result in the schedule view if that value is
\* true, and none is counted and none annotated if it is false.
C22_OneDeadlineValuePerRequest ==
  pc = "responded" =>
    /\ team_points =
         get_team_points_for_cup(weeks_csv, historical_teams, live_df, cup_info.weeks,
                                 current_week, cup_info.deadline_passed)
    /\ IF cup_info.deadline_passed
         THEN /\ CountedNow = Cardinality(FixturesIn(current_week))
              /\ \A e \in ShownNow :
                   cup_schedule[e[1]].matches[e[2]].result # NotYetPlayed
         ELSE /\ CountedNow = 0
              /\ \A e \in ShownNow :
                   cup_schedule[e[1]].matches[e[2]].result = NotYetPlayed

====
